---- MODULE Spec2Model ----
(***************************************************************************)
(* Model of container/skills/google-calendar.py: the date/time resolver    *)
(* parse_datetime and the command-line dispatch around it.                 *)
(*                                                                         *)
(* Strings that the program inspects character by character (the raw       *)
(* date argument, the "date" and "dateTime" values it produces) are        *)
(* sequences of one-character strings.  A datetime is a record of its      *)
(* fields; tzinfo is [aware, off] with off the UTC offset in minutes.      *)
(***************************************************************************)
EXTENDS Integers, Sequences, FiniteSets, TLC

VARIABLES
    clock,      \* the wall clock, a naive UTC datetime (datetime.now / utcnow)
    raw,        \* resolver run: the dt_str argument
    timezone,   \* resolver run: the timezone argument (None when not supplied)
    phase,      \* resolver run: "idle" | "start" | "resolved" | "again"
    outcome,    \* resolver run: what parse_datetime(raw, timezone) produced
    raw2,       \* resolver run: the literal output fed back
    outcome2,   \* resolver run: what parse_datetime(raw2, timezone) produced
    pc,         \* command-line run: the statement about to execute
    command,    \* command-line run: args.command
    args,       \* command-line run: the parsed arguments
    tokenFile,  \* the file at TOKEN_PATH
    fileOps,    \* operations performed on the token file, in order
    creds,      \* the Credentials built by load_credentials
    requests,   \* requests executed against the calendar backend, in order
    event,      \* the event dict being built (create) or edited (update)
    resolves,   \* number of parse_datetime calls made
    raised,     \* the exception that ended the process, "" when none
    stdout,     \* lines printed to standard output
    exitCode    \* the exit status, -1 while the process runs

rvars == <<clock, raw, timezone, phase, outcome, raw2, outcome2>>

cvars == <<pc, command, args, tokenFile, fileOps, creds, requests, event,
           resolves, raised, stdout, exitCode>>

vars == <<clock, raw, timezone, phase, outcome, raw2, outcome2,
          pc, command, args, tokenFile, fileOps, creds, requests, event,
          resolves, raised, stdout, exitCode>>

(***************************************************************************)
(* Bounds of the model.                                                    *)
(***************************************************************************)
\* number of consecutive calendar days the clock may start on
NumClockDays == 7

(***************************************************************************)
(* Characters and strings.                                                 *)
(***************************************************************************)
Digits == <<"0", "1", "2", "3", "4", "5", "6", "7", "8", "9">>

UpperLetters == <<"A", "B", "C", "D", "E", "F", "G", "H", "I", "J", "K", "L", "M",
                  "N", "O", "P", "Q", "R", "S", "T", "U", "V", "W", "X", "Y", "Z">>

LowerLetters == <<"a", "b", "c", "d", "e", "f", "g", "h", "i", "j", "k", "l", "m",
                  "n", "o", "p", "q", "r", "s", "t", "u", "v", "w", "x", "y", "z">>

Whitespace == {" ", "\t", "\n"}

IsDigit(c) == \E i \in 1..10 : Digits[i] = c

DigitVal(c) == (CHOOSE i \in 1..10 : Digits[i] = c) - 1

DigitChar(n) == Digits[n + 1]

AllDigits(s) == \A i \in 1..Len(s) : IsDigit(s[i])

RECURSIVE ToInt(_)
ToInt(s) ==
    IF Len(s) = 0 THEN 0
    ELSE ToInt(SubSeq(s, 1, Len(s) - 1)) * 10 + DigitVal(s[Len(s)])

Pad2(n) == <<DigitChar((n \div 10) % 10), DigitChar(n % 10)>>

Pad4(n) == Pad2(n \div 100) \o Pad2(n % 100)

Pad6(n) == Pad2(n \div 10000) \o Pad4(n % 10000)

\* str.lower() on one character
LowerChar(c) ==
    IF \E i \in 1..26 : UpperLetters[i] = c
    THEN LowerLetters[CHOOSE i \in 1..26 : UpperLetters[i] = c]
    ELSE c

\* str.upper() on one character
UpperChar(c) ==
    IF \E i \in 1..26 : LowerLetters[i] = c
    THEN UpperLetters[CHOOSE i \in 1..26 : LowerLetters[i] = c]
    ELSE c

\* dt_str.lower()
lower(s) == [i \in 1..Len(s) |-> LowerChar(s[i])]

upper(s) == [i \in 1..Len(s) |-> UpperChar(s[i])]

capitalize(s) == [i \in 1..Len(s) |-> IF i = 1 THEN UpperChar(s[i]) ELSE s[i]]

RECURSIVE lstrip(_)
lstrip(s) ==
    IF Len(s) > 0 /\ s[1] \in Whitespace THEN lstrip(Tail(s)) ELSE s

RECURSIVE rstrip(_)
rstrip(s) ==
    IF Len(s) > 0 /\ s[Len(s)] \in Whitespace
    THEN rstrip(SubSeq(s, 1, Len(s) - 1))
    ELSE s

\* str.strip()
strip(s) == rstrip(lstrip(s))

\* str.startswith(p)
startswith(s, p) == Len(s) >= Len(p) /\ SubSeq(s, 1, Len(p)) = p

\* c in s
Contains(s, c) == \E i \in 1..Len(s) : s[i] = c

\* s[n:]
From(s, n) == SubSeq(s, n + 1, Len(s))

(***************************************************************************)
(* The proleptic Gregorian calendar of datetime.date.                      *)
(***************************************************************************)
IsLeap(y) == y % 4 = 0 /\ (y % 100 # 0 \/ y % 400 = 0)

DaysInMonth(y, m) ==
    IF m = 2 THEN (IF IsLeap(y) THEN 29 ELSE 28)
    ELSE IF m \in {4, 6, 9, 11} THEN 30 ELSE 31

DaysBeforeYear(y) ==
    (y - 1) * 365 + ((y - 1) \div 4) - ((y - 1) \div 100) + ((y - 1) \div 400)

RECURSIVE DaysBeforeMonth(_, _)
DaysBeforeMonth(y, m) ==
    IF m = 1 THEN 0 ELSE DaysBeforeMonth(y, m - 1) + DaysInMonth(y, m - 1)

\* date.toordinal()
ToOrdinal(y, m, d) == DaysBeforeYear(y) + DaysBeforeMonth(y, m) + d

\* date.fromordinal(n)
FromOrdinal(n) ==
    LET y == CHOOSE yy \in ((n \div 366) - 1)..((n \div 365) + 1) :
                 DaysBeforeYear(yy) < n /\ n <= DaysBeforeYear(yy + 1)
        r == n - DaysBeforeYear(y)
        m == CHOOSE mm \in 1..12 :
                 DaysBeforeMonth(y, mm) < r
                 /\ r <= DaysBeforeMonth(y, mm) + DaysInMonth(y, mm)
    IN  [year |-> y, month |-> m, day |-> r - DaysBeforeMonth(y, m)]

\* datetime.weekday(): Monday is 0
weekday(dt) == (ToOrdinal(dt.year, dt.month, dt.day) + 6) % 7

Naive == [aware |-> FALSE, off |-> 0]

Aware(off) == [aware |-> TRUE, off |-> off]

MkDateTime(y, mo, d, h, mi, s, us, tzi) ==
    [year |-> y, month |-> mo, day |-> d, hour |-> h, minute |-> mi,
     second |-> s, microsecond |-> us, tzinfo |-> tzi]

\* dt + timedelta(days=k): wall-clock arithmetic, tzinfo kept as it is
AddDays(dt, k) ==
    LET d == FromOrdinal(ToOrdinal(dt.year, dt.month, dt.day) + k)
    IN  [dt EXCEPT !.year = d.year, !.month = d.month, !.day = d.day]

\* dt.replace(hour=h, minute=0, second=0, microsecond=0)
ReplaceTime(dt, h) ==
    [dt EXCEPT !.hour = h, !.minute = 0, !.second = 0, !.microsecond = 0]

(***************************************************************************)
(* Time zones (pytz).  The clock of the model stays inside winter time, so *)
(* each zone has one UTC offset, in minutes.                               *)
(***************************************************************************)
None == "None"

ZoneIds == {"UTC", "Asia/Tokyo", "America/New_York"}

UtcOffset(tz) ==
    CASE tz = "UTC" -> 0
      [] tz = "Asia/Tokyo" -> 9 * 60
      [] tz = "America/New_York" -> 0 - 5 * 60

\* tz = pytz.timezone(timezone) if timezone else pytz.UTC
ResolveTz(tzarg) == IF tzarg # None THEN tzarg ELSE "UTC"

\* datetime.now(tz): the clock's UTC instant expressed in tz
Now(tz, clk) ==
    LET total == clk.hour * 60 + clk.minute + UtcOffset(tz)
        day   == AddDays(clk, total \div 1440)
    IN  [day EXCEPT !.hour = (total % 1440) \div 60,
                    !.minute = total % 60,
                    !.tzinfo = Aware(UtcOffset(tz))]

\* tz.localize(dt)
localize(tz, dt) == [dt EXCEPT !.tzinfo = Aware(UtcOffset(tz))]

(***************************************************************************)
(* dateutil's parser.parse, on the forms the model feeds it:               *)
(*   DATE [SEP TIME [OFFSET]]                                              *)
(*   DATE   ::= YYYY-MM-DD | YYYYMMDD                                      *)
(*   SEP    ::= "T" | " "                                                  *)
(*   TIME   ::= HH:MM | HH:MM:SS[.f] | HHMMSS[.f]                          *)
(*   OFFSET ::= "Z" | (+|-)HH:MM                                           *)
(* Out-of-range fields are rejected, and so is every string that starts    *)
(* with a word the parser does not know ("next", "not", ...).  RawInputs   *)
(* below holds only strings on which this agrees with the library.         *)
(***************************************************************************)
RECURSIVE LeadingDigits(_)
LeadingDigits(s) ==
    IF Len(s) > 0 /\ IsDigit(s[1]) THEN 1 + LeadingDigits(Tail(s)) ELSE 0

RECURSIVE Pow10(_)
Pow10(n) == IF n = 0 THEN 1 ELSE 10 * Pow10(n - 1)

\* parser._parsems: the fraction, cut or padded to microseconds
ParseMicros(f) ==
    LET g == SubSeq(f, 1, IF Len(f) > 6 THEN 6 ELSE Len(f))
    IN  ToInt(g) * Pow10(6 - Len(g))

NoDate == [ok |-> FALSE, year |-> 0, month |-> 0, day |-> 0, rest |-> <<>>]

ParseDatePart(t) ==
    IF /\ Len(t) >= 10
       /\ AllDigits(SubSeq(t, 1, 4)) /\ t[5] = "-"
       /\ AllDigits(SubSeq(t, 6, 7)) /\ t[8] = "-"
       /\ AllDigits(SubSeq(t, 9, 10))
    THEN [ok |-> TRUE, year |-> ToInt(SubSeq(t, 1, 4)),
          month |-> ToInt(SubSeq(t, 6, 7)), day |-> ToInt(SubSeq(t, 9, 10)),
          rest |-> From(t, 10)]
    ELSE IF Len(t) >= 8 /\ AllDigits(SubSeq(t, 1, 8))
    THEN [ok |-> TRUE, year |-> ToInt(SubSeq(t, 1, 4)),
          month |-> ToInt(SubSeq(t, 5, 6)), day |-> ToInt(SubSeq(t, 7, 8)),
          rest |-> From(t, 8)]
    ELSE NoDate

NoTime == [ok |-> FALSE, hour |-> 0, minute |-> 0, second |-> 0,
           microsecond |-> 0, rest |-> <<>>]

\* the optional fraction of a second that follows the seconds
ParseFraction(h, mi, s, r) ==
    IF Len(r) >= 2 /\ r[1] = "." /\ IsDigit(r[2])
    THEN LET n == LeadingDigits(Tail(r))
         IN  [ok |-> TRUE, hour |-> h, minute |-> mi, second |-> s,
              microsecond |-> ParseMicros(SubSeq(r, 2, n + 1)),
              rest |-> From(r, n + 1)]
    ELSE [ok |-> TRUE, hour |-> h, minute |-> mi, second |-> s,
          microsecond |-> 0, rest |-> r]

ParseTimePart(r) ==
    IF /\ Len(r) >= 5
       /\ AllDigits(SubSeq(r, 1, 2)) /\ r[3] = ":" /\ AllDigits(SubSeq(r, 4, 5))
    THEN IF Len(r) >= 8 /\ r[6] = ":" /\ AllDigits(SubSeq(r, 7, 8))
         THEN ParseFraction(ToInt(SubSeq(r, 1, 2)), ToInt(SubSeq(r, 4, 5)),
                            ToInt(SubSeq(r, 7, 8)), From(r, 8))
         ELSE [ok |-> TRUE, hour |-> ToInt(SubSeq(r, 1, 2)),
               minute |-> ToInt(SubSeq(r, 4, 5)), second |-> 0,
               microsecond |-> 0, rest |-> From(r, 5)]
    ELSE IF Len(r) >= 6 /\ AllDigits(SubSeq(r, 1, 6))
    THEN ParseFraction(ToInt(SubSeq(r, 1, 2)), ToInt(SubSeq(r, 3, 4)),
                       ToInt(SubSeq(r, 5, 6)), From(r, 6))
    ELSE NoTime

ParseOffset(r) ==
    IF Len(r) = 0 THEN [ok |-> TRUE, tzinfo |-> Naive]
    ELSE IF r = <<"Z">> THEN [ok |-> TRUE, tzinfo |-> Aware(0)]
    ELSE IF /\ Len(r) = 6 /\ r[1] \in {"+", "-"}
            /\ AllDigits(SubSeq(r, 2, 3)) /\ r[4] = ":"
            /\ AllDigits(SubSeq(r, 5, 6))
    THEN LET mins == ToInt(SubSeq(r, 2, 3)) * 60 + ToInt(SubSeq(r, 5, 6))
         IN  [ok |-> TRUE,
              tzinfo |-> Aware(IF r[1] = "-" THEN 0 - mins ELSE mins)]
    ELSE [ok |-> FALSE, tzinfo |-> Naive]

NoParse == [ok |-> FALSE, dt |-> MkDateTime(1, 1, 1, 0, 0, 0, 0, Naive)]

ValidDate(y, m, d) ==
    y >= 1 /\ m \in 1..12 /\ d >= 1 /\ d <= DaysInMonth(y, m)

ValidTime(h, mi, s) == h \in 0..23 /\ mi \in 0..59 /\ s \in 0..59

\* the datetime of a date d, a time tm and an offset o, each as parsed
ParsedDateTime(d, tm, o) ==
    IF ~tm.ok \/ ~ValidTime(tm.hour, tm.minute, tm.second) \/ ~o.ok
    THEN NoParse
    ELSE [ok |-> TRUE,
          dt |-> MkDateTime(d.year, d.month, d.day, tm.hour, tm.minute,
                            tm.second, tm.microsecond, o.tzinfo)]

ParsedTime(d, tm) == ParsedDateTime(d, tm, ParseOffset(tm.rest))

ParsedDate(d) ==
    IF ~d.ok \/ ~ValidDate(d.year, d.month, d.day) THEN NoParse
    ELSE IF Len(d.rest) = 0
    THEN [ok |-> TRUE,
          dt |-> MkDateTime(d.year, d.month, d.day, 0, 0, 0, 0, Naive)]
    ELSE IF d.rest[1] \notin {"T", " "} THEN NoParse
    ELSE ParsedTime(d, ParseTimePart(Tail(d.rest)))

\* date_parser.parse(dt_str): [ok, dt]; ok = FALSE is ParserError
date_parser_parse(s) == ParsedDate(ParseDatePart(strip(s)))

(***************************************************************************)
(* Formatting.                                                             *)
(***************************************************************************)
FormatOffset(off) ==
    LET a == IF off < 0 THEN 0 - off ELSE off
    IN  <<IF off < 0 THEN "-" ELSE "+">> \o Pad2(a \div 60) \o <<":">> \o Pad2(a % 60)

\* YYYY-MM-DD
DateChars(y, m, d) == Pad4(y) \o <<"-">> \o Pad2(m) \o <<"-">> \o Pad2(d)

\* a faulty variant of strftime: day written before month
strftime_mutDayMonth(dt) == DateChars(dt.year, dt.day, dt.month)

\* dt.strftime("%Y-%m-%d")
strftime(dt) == DateChars(dt.year, dt.month, dt.day)

\* dt.isoformat()
isoformat(dt) ==
    DateChars(dt.year, dt.month, dt.day) \o <<"T">>
    \o Pad2(dt.hour) \o <<":">> \o Pad2(dt.minute) \o <<":">> \o Pad2(dt.second)
    \o (IF dt.microsecond # 0 THEN <<".">> \o Pad6(dt.microsecond) ELSE <<>>)
    \o (IF dt.tzinfo.aware THEN FormatOffset(dt.tzinfo.off) ELSE <<>>)

(***************************************************************************)
(* parse_datetime.                                                         *)
(***************************************************************************)
kToday == <<"t", "o", "d", "a", "y">>

kTomorrow == <<"t", "o", "m", "o", "r", "r", "o", "w">>

kNext == <<"n", "e", "x", "t", " ">>

days == << <<"m", "o", "n", "d", "a", "y">>,
           <<"t", "u", "e", "s", "d", "a", "y">>,
           <<"w", "e", "d", "n", "e", "s", "d", "a", "y">>,
           <<"t", "h", "u", "r", "s", "d", "a", "y">>,
           <<"f", "r", "i", "d", "a", "y">>,
           <<"s", "a", "t", "u", "r", "d", "a", "y">>,
           <<"s", "u", "n", "d", "a", "y">> >>

\* day_name in days: days.index(day_name) does not raise ValueError
InDays(day_name) == \E i \in 1..Len(days) : days[i] = day_name

\* days.index(day_name), 0-based
days_index(day_name) == (CHOOSE i \in 1..Len(days) : days[i] = day_name) - 1

\* a faulty variant of days_ahead: wraps on < 0 only, so "next" can be today
days_ahead_mutLt(target_day, current_day) ==
    LET d == target_day - current_day
    IN  IF d < 0 THEN d + 7 ELSE d

\* days_ahead = target_day - current_day; if days_ahead <= 0: days_ahead += 7
days_ahead(target_day, current_day) ==
    LET d == target_day - current_day
    IN  IF d <= 0 THEN d + 7 ELSE d

\* now.replace(hour=0, minute=0, second=0, microsecond=0)
today_dt(now) == ReplaceTime(now, 0)

\* a faulty variant of tomorrow_dt: the day is not added
tomorrow_dt_mutNoAdd(now) == ReplaceTime(now, 0)

\* (now + timedelta(days=1)).replace(hour=0, minute=0, second=0, microsecond=0)
tomorrow_dt(now) == ReplaceTime(AddDays(now, 1), 0)

\* (now + timedelta(days=days_ahead)).replace(hour=9, minute=0, second=0, microsecond=0)
next_dt(now, day_name) ==
    ReplaceTime(AddDays(now, days_ahead(days_index(day_name), weekday(now))), 9)

\* a faulty variant of next_fallback: parses the text after "next " only
next_fallback_mutResidue(dt_str, day_name) == date_parser_parse(day_name)

\* except ValueError: dt = date_parser.parse(dt_str)
next_fallback(dt_str, day_name) == date_parser_parse(dt_str)

\* a faulty variant of is_all_day: the raw string is not looked at
is_all_day_mutNoColon(dt, dt_str) ==
    dt.hour = 0 /\ dt.minute = 0 /\ dt.second = 0

\* dt.hour == 0 and dt.minute == 0 and dt.second == 0 and ":" not in dt_str
is_all_day(dt, dt_str) ==
    dt.hour = 0 /\ dt.minute = 0 /\ dt.second = 0 /\ ~Contains(dt_str, ":")

\* a faulty variant of ensure_timezone: a naive value is left naive
ensure_timezone_mutSkip(tz, dt) == dt

\* if dt.tzinfo is None: dt = tz.localize(dt)
ensure_timezone(tz, dt) == IF ~dt.tzinfo.aware THEN localize(tz, dt) ELSE dt

\* elif lower.startswith("next "): day_name = lower[5:].strip(); try ... except
resolve_next(dt_str, day_name, now) ==
    IF InDays(day_name)
    THEN [ok |-> TRUE, dt |-> next_dt(now, day_name)]
    ELSE next_fallback(dt_str, day_name)

\* the if / elif chain on lower that produces dt: [ok, dt]
resolve_keyword(dt_str, low, now) ==
    IF low = kToday THEN [ok |-> TRUE, dt |-> today_dt(now)]
    ELSE IF low = kTomorrow THEN [ok |-> TRUE, dt |-> tomorrow_dt(now)]
    ELSE IF startswith(low, kNext) THEN resolve_next(dt_str, strip(From(low, 5)), now)
    ELSE date_parser_parse(dt_str)

\* now = datetime.now(tz); lower = dt_str.lower().strip(); dt = ...
resolve_dt(dt_str, tz, clk) ==
    resolve_keyword(dt_str, strip(lower(dt_str)), Now(tz, clk))

ParserError(dt_str) == [ok |-> FALSE, exc |-> "ParserError", arg |-> dt_str]

Returned(value) == [ok |-> TRUE, value |-> value]

\* the value returned for dt, or the exception that left parse_datetime
to_calendar_format(r, dt_str, tz) ==
    IF ~r.ok THEN ParserError(dt_str)
    ELSE IF is_all_day(r.dt, dt_str)
    THEN Returned([date |-> strftime(r.dt)])
    ELSE Returned([dateTime |-> isoformat(ensure_timezone(tz, r.dt)),
                   timeZone |-> tz])

\* parse_datetime(dt_str, timezone) at wall-clock time clk
parse_datetime(dt_str, tzarg, clk) ==
    to_calendar_format(resolve_dt(dt_str, ResolveTz(tzarg), clk), dt_str,
                       ResolveTz(tzarg))

(***************************************************************************)
(* The inputs of the model.                                                *)
(***************************************************************************)
\* wall-clock instants (UTC): consecutive days from Saturday 2024-02-24,
\* across the leap day and the end of the month, early and late in the day
\* so that the zone offsets move the local date both ways
Clocks ==
    { AddDays(MkDateTime(2024, 2, 24, h, 30, 15, 250000, Naive), k) :
        h \in {3, 21}, k \in 0..(NumClockDays - 1) }

TimezoneArgs == ZoneIds \cup {None}

\* a keyword as typed: plain, capitalised, upper case between blanks
Variants(b) == {b, capitalize(b), <<" ">> \o upper(b) \o <<" ", " ">>}

\* "next <weekday i>" as typed, also with more than one blank after "next"
NextVariants(i) ==
    Variants(kNext \o days[i]) \cup {kNext \o <<" ">> \o capitalize(days[i])}

KeywordInputs ==
    Variants(kToday) \cup Variants(kTomorrow)
    \cup UNION { NextVariants(i) : i \in 1..Len(days) }

sLeapDay == <<"2", "0", "2", "4", "-", "0", "2", "-", "2", "9">>

sMarchFirst == <<"2", "0", "2", "4", "0", "3", "0", "1">>

sMidnight == <<"0", "0", ":", "0", "0", ":", "0", "0">>

sMorning == <<"0", "9", ":", "3", "0", ":", "0", "0">>

sNotADate == <<"n", "o", "t", "-", "a", "-", "d", "a", "t", "e", "-", "x", "y", "z">>

sFeb30 == <<"2", "0", "2", "4", "-", "0", "2", "-", "3", "0">>

sMonth13 == <<"2", "0", "2", "4", "-", "1", "3", "-", "0", "1">>

InputDates == {sLeapDay, sMarchFirst}

InputTimes == { sMidnight,
                sMorning,
                <<"0", "0", ":", "0", "0", ":", "0", "0", ".", "5">>,
                <<"2", "3", ":", "5", "9">>,
                <<"0", "0", "0", "0", "0", "0">>,
                <<"0", "9", "3", "0", "0", "0">>,
                <<"0", "0", "0", "0", "0", "0", ".", "5">> }

InputOffsets == { <<>>, <<"Z">>,
                  <<"+", "0", "9", ":", "0", "0">>,
                  <<"-", "0", "5", ":", "0", "0">> }

\* literals the parser accepts
LiteralInputs ==
    InputDates
    \cup { d \o <<"T">> \o t \o o : d \in InputDates, t \in InputTimes, o \in InputOffsets }
    \cup { d \o <<" ">> \o t : d \in InputDates, t \in InputTimes }

\* strings the parser rejects: unknown words, out-of-range fields, blanks
RejectedInputs ==
    { kNext \o <<"x", "y", "z">>,
      <<"N", "e", "x", "t", " ", "M", "o", "n">>,
      kNext \o sLeapDay,
      <<"n", "e", "x", "t">>,
      <<"t", "o", "m", "o", "r", "o", "w">>,
      sNotADate,
      <<" ", " ">>,
      sFeb30,
      <<"2", "0", "2", "3", "-", "0", "2", "-", "2", "9">>,
      sMonth13,
      sLeapDay \o <<"T", "2", "5", ":", "0", "0", ":", "0", "0">> }

RawInputs == KeywordInputs \cup LiteralInputs \cup RejectedInputs

(***************************************************************************)
(* The command line: main, get_calendar_service and the five commands.     *)
(* An optional argument is [given, v]; Python's truth test of it is        *)
(* Truthy: supplied and not empty.                                         *)
(***************************************************************************)
Commands == {"list-calendars", "list-events", "create-event", "update-event",
             "delete-event"}

NoCommand == "no-command"

Absent(empty) == [given |-> FALSE, v |-> empty]

Given(v) == [given |-> TRUE, v |-> v]

TruthyStr(o) == o.given /\ o.v # ""

TruthySeq(o) == o.given /\ Len(o.v) > 0

AuthRequiredLine == "AUTH_REQUIRED:google-calendar:calendar,calendar.events"

SecondOfDay(dt) == (dt.hour * 60 + dt.minute) * 60 + dt.second

\* a >= b, for two naive UTC datetimes
NotBefore(a, b) ==
    LET da == ToOrdinal(a.year, a.month, a.day)
        db == ToOrdinal(b.year, b.month, b.day)
    IN  da > db \/ (da = db /\ SecondOfDay(a) >= SecondOfDay(b))

NoCreds == [loaded |-> FALSE, token |-> "", hasExpiry |-> FALSE,
            expiry |-> MkDateTime(1, 1, 1, 0, 0, 0, 0, Naive)]

\* what load_credentials does on reaching its end: the Credentials and the
\* file operations made, no exception
Loaded(c, ops) == [creds |-> c, ops |-> ops, exc |-> ""]

\* an exception that neither except clause of load_credentials catches
Uncaught(exc, ops) == [creds |-> NoCreds, ops |-> ops, exc |-> exc]

\* Credentials(token=access_token, ..., expiry=expiry)
Credentials(tf) ==
    [loaded |-> TRUE, token |-> tf.access_token.v,
     hasExpiry |-> tf.expires_at.kind = "iso",
     expiry |-> tf.expires_at.at]

\* the statements of the try block, after open(): json.load raises
\* UnicodeDecodeError on bytes that are no text and JSONDecodeError (caught,
\* None) on text that is no JSON; token_data.get raises AttributeError on a
\* document that is no object; expires_at.replace raises AttributeError on a
\* number
read_token(tf, ops) ==
    CASE tf.content = "not_text"   -> Uncaught("UnicodeDecodeError", ops)
      [] tf.content = "not_json"   -> Loaded(NoCreds, ops)
      [] tf.content = "not_object" -> Uncaught("AttributeError", ops)
      [] OTHER ->
           IF ~TruthyStr(tf.access_token) THEN Loaded(NoCreds, ops)
           ELSE IF tf.expires_at.kind = "number"
           THEN Uncaught("AttributeError", ops)
           ELSE Loaded(Credentials(tf), ops)

\* a faulty variant of load_credentials: the token file is opened twice
load_credentials_mutReadTwice(tf) ==
    IF ~tf.exists THEN Loaded(NoCreds, <<"exists">>)
    ELSE read_token(tf, <<"exists", "read", "exists", "read">>)

\* load_credentials(): the Credentials or None, the file operations it made,
\* and the exception it let through
load_credentials(tf) ==
    IF ~tf.exists THEN Loaded(NoCreds, <<"exists">>)
    ELSE read_token(tf, <<"exists", "read">>)

\* creds.expired: an expiry is set and has passed
expired(c, clk) == c.hasExpiry /\ NotBefore(clk, c.expiry)

\* get_calendar_service: "if not creds" or "if creds.expired"
needs_auth(c, clk) == ~c.loaded \/ expired(c, clk)

\* the command's function, commands[args.command]
HandlerEntry(cmd) ==
    CASE cmd = "list-calendars" -> "cmd_list_calendars"
      [] cmd = "list-events"    -> "cmd_list_events"
      [] cmd = "create-event"   -> "create_get_timezone"
      [] cmd = "update-event"   -> "update_get_event"
      [] cmd = "delete-event"   -> "cmd_delete_event"

NoBody == <<>>

Request(api, body, result, response) ==
    [api |-> api, body |-> body, result |-> result, response |-> response]

HttpResults == {"ok", "HttpError"}

\* the calendar resource's "timeZone"; None when the key is missing
CalendarTimezones == ZoneIds \cup {None}

\* calendar.get("timeZone", "UTC")
calendar_timezone(tzv) == IF tzv = None THEN "UTC" ELSE tzv

\* a faulty variant of event_times: a parser error becomes an empty date
event_times_mutSwallow(s, e) ==
    [ok |-> TRUE, calls |-> 2,
     start |-> IF s.ok THEN s.value ELSE [date |-> <<>>],
     end |-> IF e.ok THEN e.value ELSE [date |-> <<>>]]

\* the two calls in the dict literal, in order; an exception ends the literal
event_times(s, e) ==
    IF ~s.ok THEN [ok |-> FALSE, calls |-> 1]
    ELSE IF ~e.ok THEN [ok |-> FALSE, calls |-> 2]
    ELSE [ok |-> TRUE, calls |-> 2, start |-> s.value, end |-> e.value]

\* "start": parse_datetime(args.start, timezone), "end": parse_datetime(args.end, timezone)
create_event_times(a, tz, clk) ==
    event_times(parse_datetime(a.start.v, tz, clk),
                parse_datetime(a.end.v, tz, clk))

\* the event dict of cmd_create_event
create_event_body(a, times) ==
    (IF TruthyStr(a.location) THEN ("location" :> a.location.v) ELSE <<>>)
    @@ (IF TruthyStr(a.description) THEN ("description" :> a.description.v) ELSE <<>>)
    @@ [summary |-> a.title.v, start |-> times.start, end |-> times.end]

\* event[k] = v
SetKey(e, k, v) == (k :> v) @@ e

\* a faulty variant of update_text_fields: an empty value overwrites too
update_text_fields_mutGiven(e, a) ==
    LET e1 == IF a.title.given THEN SetKey(e, "summary", a.title.v) ELSE e
        e2 == IF a.description.given
              THEN SetKey(e1, "description", a.description.v) ELSE e1
    IN  IF a.location.given THEN SetKey(e2, "location", a.location.v) ELSE e2

\* if args.title / args.description / args.location: event[...] = ...
update_text_fields(e, a) ==
    LET e1 == IF TruthyStr(a.title) THEN SetKey(e, "summary", a.title.v) ELSE e
        e2 == IF TruthyStr(a.description)
              THEN SetKey(e1, "description", a.description.v) ELSE e1
    IN  IF TruthyStr(a.location) THEN SetKey(e2, "location", a.location.v) ELSE e2

\* the two "if args.start / if args.end" statements, s and en being what
\* parse_datetime gives for each
apply_times(e, a, s, en) ==
    LET c1 == IF TruthySeq(a.start) THEN 1 ELSE 0
        c2 == IF TruthySeq(a.end) THEN 1 ELSE 0
    IN  IF TruthySeq(a.start) /\ ~s.ok THEN [ok |-> FALSE, calls |-> 1]
        ELSE IF TruthySeq(a.end) /\ ~en.ok THEN [ok |-> FALSE, calls |-> c1 + 1]
        ELSE [ok |-> TRUE, calls |-> c1 + c2,
              event |-> (IF TruthySeq(a.end) THEN ("end" :> en.value) ELSE <<>>)
                        @@ (IF TruthySeq(a.start) THEN ("start" :> s.value) ELSE <<>>)
                        @@ e]

\* if args.start / args.end: event[...] = parse_datetime(..., timezone)
update_time_fields(e, a, tz, clk) ==
    apply_times(e, a, parse_datetime(a.start.v, tz, clk),
                parse_datetime(a.end.v, tz, clk))

(***************************************************************************)
(* The inputs of a command-line run.                                       *)
(***************************************************************************)
CliClocks ==
    { AddDays(MkDateTime(2024, 2, 24, 21, 30, 15, 250000, Naive), k) :
        k \in {0, NumClockDays - 2} }

NoExpiry(kind) == [kind |-> kind, at |-> MkDateTime(1, 1, 1, 0, 0, 0, 0, Naive)]

ExpiresAt(d) == [kind |-> "iso", at |-> d]

\* "missing": no expires_at key; "garbage": a string fromisoformat rejects;
\* "number": a JSON number, such as seconds since the epoch
ExpiresAts ==
    { NoExpiry("missing"), NoExpiry("garbage"), NoExpiry("number"),
      ExpiresAt(MkDateTime(2024, 2, 20, 0, 0, 0, 0, Naive)),
      ExpiresAt(MkDateTime(2024, 2, 27, 0, 0, 0, 0, Naive)),
      ExpiresAt(MkDateTime(2024, 3, 20, 0, 0, 0, 0, Naive)) }

TokenContents == {"not_text", "not_json", "not_object", "object"}

\* the token file: absent; present with bytes that are no text, text that is
\* no JSON, or a JSON document that is no object (all without a token); an
\* object without or with an empty access_token; an object with a token
TokenFiles ==
    { [exists |-> FALSE, content |-> "not_json", access_token |-> Absent(""),
       expires_at |-> NoExpiry("missing")] }
    \cup { [exists |-> TRUE, content |-> c, access_token |-> Absent(""),
            expires_at |-> NoExpiry("missing")] : c \in TokenContents }
    \cup { [exists |-> TRUE, content |-> "object", access_token |-> Given(""),
            expires_at |-> ExpiresAt(MkDateTime(2024, 3, 20, 0, 0, 0, 0, Naive))] }
    \cup { [exists |-> TRUE, content |-> "object", access_token |-> Given("ya29.token"),
            expires_at |-> x] : x \in ExpiresAts }

NoArgs == [title |-> Absent(""), start |-> Absent(<<>>), end |-> Absent(<<>>),
           description |-> Absent(""), location |-> Absent("")]

CreateArgs ==
    { [title |-> Given("Lunch"), start |-> Given(st), end |-> Given(en),
       description |-> de, location |-> lo] :
        st \in {kToday, <<" ">> \o upper(kNext \o days[5]) \o <<" ", " ">>,
                sLeapDay \o <<"T">> \o sMorning, sNotADate, sFeb30},
        en \in {kTomorrow, sLeapDay \o <<"T", "2", "3", ":", "5", "9">>, sMonth13},
        de \in {Absent(""), Given(""), Given("Team lunch")},
        lo \in {Absent(""), Given("Cafe")} }

UpdateArgs ==
    { [title |-> ti, start |-> st, end |-> en, description |-> de, location |-> lo] :
        ti \in {Absent(""), Given(""), Given("Renamed")},
        st \in {Absent(<<>>), Given(<<>>), Given(sMarchFirst), Given(sNotADate)},
        en \in {Absent(<<>>), Given(sMarchFirst \o <<" ">> \o sMorning), Given(sFeb30)},
        de \in {Absent(""), Given("New text")},
        lo \in {Absent(""), Given(""), Given("Room 2")} }

ArgsFor(cmd) ==
    CASE cmd = "create-event" -> CreateArgs
      [] cmd = "update-event" -> UpdateArgs
      [] OTHER -> {NoArgs}

\* events the backend may hold under the requested id
StoredEvents ==
    { [id |-> "ev1", summary |-> "Standup", description |-> "Daily sync",
       location |-> "Room 1", attendees |-> "alice@example.com",
       start |-> [dateTime |-> sLeapDay \o <<"T">> \o sMorning \o <<"Z">>,
                  timeZone |-> "UTC"],
       end |-> [dateTime |-> sLeapDay \o <<"T", "1", "0", ":", "0", "0", ":", "0", "0", "Z">>,
                timeZone |-> "UTC"]],
      [id |-> "ev2", summary |-> "Holiday", status |-> "confirmed",
       start |-> [date |-> sLeapDay], end |-> [date |-> sLeapDay]] }

(***************************************************************************)
(* A command-line run.                                                     *)
(***************************************************************************)
Idle ==
    /\ pc = "idle" /\ command = NoCommand /\ args = NoArgs
    /\ tokenFile \in {tf \in TokenFiles : ~tf.exists}
    /\ fileOps = <<>> /\ creds = NoCreds /\ requests = <<>> /\ event = <<>>
    /\ resolves = 0 /\ raised = "" /\ stdout = <<>> /\ exitCode = -1

RIdle ==
    /\ raw = <<>> /\ phase = "idle" /\ outcome = [ok |-> FALSE, exc |-> "", arg |-> <<>>]
    /\ raw2 = <<>> /\ outcome2 = [ok |-> FALSE, exc |-> "", arg |-> <<>>]

Init ==
    /\ clock \in CliClocks
    /\ command \in Commands \cup {NoCommand}
    /\ args \in ArgsFor(command)
    /\ tokenFile \in TokenFiles
    /\ pc = "main"
    /\ timezone = None
    /\ fileOps = <<>> /\ creds = NoCreds /\ requests = <<>> /\ event = <<>>
    /\ resolves = 0 /\ raised = "" /\ stdout = <<>> /\ exitCode = -1
    /\ RIdle

\* sys.exit(code), or the end of main
Exit(code, line) ==
    /\ pc' = "exit"
    /\ exitCode' = code
    /\ stdout' = IF line = "" THEN stdout ELSE Append(stdout, line)

\* main: no command prints the help and exits 1, else the command's function runs
Main ==
    /\ pc = "main"
    /\ IF command = NoCommand
       THEN Exit(1, "usage")
       ELSE pc' = "get_calendar_service" /\ UNCHANGED <<exitCode, stdout>>
    /\ UNCHANGED <<rvars, command, args, tokenFile, fileOps, creds, requests,
                   event, resolves, raised>>

\* service = get_calendar_service(), the first statement of every command; an
\* exception load_credentials lets through ends the process with a traceback
GetCalendarService ==
    /\ pc = "get_calendar_service"
    /\ \E lc \in {load_credentials(tokenFile)} :
           /\ fileOps' = fileOps \o lc.ops
           /\ creds' = lc.creds
           /\ raised' = lc.exc
           /\ IF lc.exc # "" THEN Exit(1, "")
              ELSE IF needs_auth(lc.creds, clock)
              THEN Exit(0, AuthRequiredLine)
              ELSE pc' = HandlerEntry(command) /\ UNCHANGED <<exitCode, stdout>>
    /\ UNCHANGED <<rvars, command, args, tokenFile, requests, event, resolves>>

\* a command that makes one request and reports its result
OneRequest(at, api, done) ==
    /\ pc = at
    /\ \E res \in HttpResults :
         /\ requests' = Append(requests, Request(api, NoBody, res, <<>>))
         /\ IF res = "ok" THEN Exit(0, done) ELSE Exit(1, "")
    /\ UNCHANGED <<rvars, command, args, tokenFile, fileOps, creds, event,
                   resolves, raised>>

CmdListCalendars == OneRequest("cmd_list_calendars", "calendarList.list", "Calendars:")

CmdListEvents == OneRequest("cmd_list_events", "events.list", "Events for the next days:")

CmdDeleteEvent ==
    OneRequest("cmd_delete_event", "events.delete", "Event deleted successfully!")

\* cmd_create_event: the calendar's time zone, "UTC" on HttpError
CreateGetTimezone ==
    /\ pc = "create_get_timezone"
    /\ \E res \in HttpResults, tzv \in CalendarTimezones :
         /\ requests' = Append(requests,
                               Request("calendars.get", NoBody, res,
                                       IF res = "ok" THEN <<tzv>> ELSE <<>>))
         /\ timezone' = IF res = "ok" THEN calendar_timezone(tzv) ELSE "UTC"
    /\ pc' = "create_build_event"
    /\ UNCHANGED <<clock, raw, phase, outcome, raw2, outcome2, command, args,
                   tokenFile, fileOps, creds, event, resolves, raised, stdout,
                   exitCode>>

\* cmd_create_event: the event dict; a ParserError is not caught
CreateBuildEvent ==
    /\ pc = "create_build_event"
    /\ \E t \in {create_event_times(args, timezone, clock)} :
           /\ resolves' = resolves + t.calls
           /\ IF t.ok
              THEN /\ event' = create_event_body(args, t)
                   /\ pc' = "create_insert"
                   /\ UNCHANGED <<raised, exitCode, stdout>>
              ELSE /\ raised' = "ParserError"
                   /\ Exit(1, "")
                   /\ UNCHANGED event
    /\ UNCHANGED <<rvars, command, args, tokenFile, fileOps, creds, requests>>

\* cmd_create_event: events().insert
CreateInsert ==
    /\ pc = "create_insert"
    /\ \E res \in HttpResults :
         /\ requests' = Append(requests, Request("events.insert", event, res, <<>>))
         /\ IF res = "ok" THEN Exit(0, "Event created successfully!") ELSE Exit(1, "")
    /\ UNCHANGED <<rvars, command, args, tokenFile, fileOps, creds, event,
                   resolves, raised>>

\* cmd_update_event: events().get
UpdateGetEvent ==
    /\ pc = "update_get_event"
    /\ \E res \in HttpResults, ev \in StoredEvents :
         /\ requests' = Append(requests,
                               Request("events.get", NoBody, res,
                                       IF res = "ok" THEN ev ELSE <<>>))
         /\ IF res = "ok"
            THEN /\ event' = ev
                 /\ pc' = "update_get_timezone"
                 /\ UNCHANGED <<exitCode, stdout>>
            ELSE Exit(1, "") /\ UNCHANGED event
    /\ UNCHANGED <<rvars, command, args, tokenFile, fileOps, creds, resolves, raised>>

\* cmd_update_event: calendars().get
UpdateGetTimezone ==
    /\ pc = "update_get_timezone"
    /\ \E res \in HttpResults, tzv \in CalendarTimezones :
         /\ requests' = Append(requests,
                               Request("calendars.get", NoBody, res,
                                       IF res = "ok" THEN <<tzv>> ELSE <<>>))
         /\ IF res = "ok"
            THEN /\ timezone' = calendar_timezone(tzv)
                 /\ pc' = "update_apply_fields"
                 /\ UNCHANGED <<exitCode, stdout>>
            ELSE Exit(1, "") /\ UNCHANGED timezone
    /\ UNCHANGED <<clock, raw, phase, outcome, raw2, outcome2, command, args,
                   tokenFile, fileOps, creds, event, resolves, raised>>

\* cmd_update_event: the fields given on the command line replace the event's
UpdateApplyFields ==
    /\ pc = "update_apply_fields"
    /\ \E t \in {update_time_fields(update_text_fields(event, args), args,
                                    timezone, clock)} :
           /\ resolves' = resolves + t.calls
           /\ IF t.ok
              THEN /\ event' = t.event
                   /\ pc' = "update_send"
                   /\ UNCHANGED <<raised, exitCode, stdout>>
              ELSE /\ raised' = "ParserError"
                   /\ Exit(1, "")
                   /\ UNCHANGED event
    /\ UNCHANGED <<rvars, command, args, tokenFile, fileOps, creds, requests>>

\* cmd_update_event: events().update
UpdateSend ==
    /\ pc = "update_send"
    /\ \E res \in HttpResults :
         /\ requests' = Append(requests, Request("events.update", event, res, <<>>))
         /\ IF res = "ok" THEN Exit(0, "Event updated successfully!") ELSE Exit(1, "")
    /\ UNCHANGED <<rvars, command, args, tokenFile, fileOps, creds, event,
                   resolves, raised>>

Next ==
    \/ Main
    \/ GetCalendarService
    \/ CmdListCalendars
    \/ CmdListEvents
    \/ CmdDeleteEvent
    \/ CreateGetTimezone
    \/ CreateBuildEvent
    \/ CreateInsert
    \/ UpdateGetEvent
    \/ UpdateGetTimezone
    \/ UpdateApplyFields
    \/ UpdateSend

Spec == Init /\ [][Next]_vars

(***************************************************************************)
(* A run of the resolver: parse_datetime(raw, timezone), and then          *)
(* parse_datetime again on the literal it returned.                        *)
(***************************************************************************)
\* the literal of a returned value: its "date", or its "dateTime"
OutputLiteral(value) ==
    IF "date" \in DOMAIN value THEN value.date ELSE value.dateTime

RInit ==
    /\ clock \in Clocks
    /\ raw \in RawInputs
    /\ timezone \in TimezoneArgs
    /\ phase = "start"
    /\ outcome = [ok |-> FALSE, exc |-> "", arg |-> <<>>]
    /\ raw2 = <<>>
    /\ outcome2 = [ok |-> FALSE, exc |-> "", arg |-> <<>>]
    /\ Idle

Resolve ==
    /\ phase = "start"
    /\ outcome' = parse_datetime(raw, timezone, clock)
    /\ phase' = "resolved"
    /\ UNCHANGED <<clock, raw, timezone, raw2, outcome2, cvars>>

\* the second call happens at the same instant or a day later
FeedBack ==
    /\ phase = "resolved"
    /\ outcome.ok
    /\ \E later \in 0..1 :
         /\ clock' = AddDays(clock, later)
         /\ raw2' = OutputLiteral(outcome.value)
         /\ outcome2' = parse_datetime(raw2', timezone, clock')
    /\ phase' = "again"
    /\ UNCHANGED <<raw, timezone, outcome, cvars>>

RNext == Resolve \/ FeedBack

ResolveSpec == RInit /\ [][RNext]_vars

(***************************************************************************)
(* Properties of the resolver, checked under ResolveSpec.                  *)
(***************************************************************************)
\* the ordinal of the date a literal starts with, YYYY-MM-DD
LiteralDate(s) ==
    ToOrdinal(ToInt(SubSeq(s, 1, 4)), ToInt(SubSeq(s, 6, 7)), ToInt(SubSeq(s, 9, 10)))

HasDateShape(s) ==
    /\ Len(s) >= 10
    /\ AllDigits(SubSeq(s, 1, 4)) /\ s[5] = "-"
    /\ AllDigits(SubSeq(s, 6, 7)) /\ s[8] = "-"
    /\ AllDigits(SubSeq(s, 9, 10))

\* the ordinal of now's calendar date in the resolver's time zone
LocalToday == ToOrdinal(Now(ResolveTz(timezone), clock).year,
                        Now(ResolveTz(timezone), clock).month,
                        Now(ResolveTz(timezone), clock).day)

\* the date and time parse_datetime resolved raw to, before formatting
ResolvedDt == resolve_dt(raw, ResolveTz(timezone), clock).dt

IsAllDay(v) == DOMAIN v = {"date"}

IsInstant(v) == DOMAIN v = {"dateTime", "timeZone"}

\* C1: "next <weekday W>", however typed, resolves to a date strictly after
\* now's date and at most 7 days after it, whose weekday is W; when today is
\* already W the date is exactly 7 days later.
C1_NextWeekday ==
    phase = "resolved" =>
      \A i \in 1..Len(days) :
        raw \in NextVariants(i) =>
          /\ outcome.ok
          /\ IsInstant(outcome.value)
          /\ HasDateShape(outcome.value.dateTime)
          /\ LiteralDate(outcome.value.dateTime) > LocalToday
          /\ LiteralDate(outcome.value.dateTime) <= LocalToday + 7
          /\ (LiteralDate(outcome.value.dateTime) + 6) % 7 = i - 1
          /\ ((LocalToday + 6) % 7 = i - 1 =>
                LiteralDate(outcome.value.dateTime) = LocalToday + 7)

\* "next <today's weekday>", not typed plainly, resolved to a week from today
C1_Witness ==
    /\ phase = "resolved"
    /\ \E i \in 1..Len(days) :
         /\ raw \in NextVariants(i) /\ raw # kNext \o days[i]
         /\ (LocalToday + 6) % 7 = i - 1
    /\ outcome.ok
    /\ LiteralDate(outcome.value.dateTime) = LocalToday + 7

\* C2 as stated: the all-day form is returned if and only if the resolved
\* time of day is exactly midnight and the raw string holds no ":".
C2_AllDayIffExactMidnight ==
    phase = "resolved" /\ outcome.ok =>
      (IsAllDay(outcome.value) <=>
         /\ ResolvedDt.hour = 0 /\ ResolvedDt.minute = 0 /\ ResolvedDt.second = 0
         /\ ResolvedDt.microsecond = 0
         /\ ~Contains(raw, ":"))

\* C2 as amended: the all-day form is returned if and only if the resolved
\* hour, minute and second are all zero (the fraction of a second is not
\* looked at) and the raw string holds no ":"; an explicit midnight literal
\* with ":" is a timed value, and so is every "next <weekday>".
C2_AllDayIffZeroHMS ==
    phase = "resolved" /\ outcome.ok =>
      /\ IsAllDay(outcome.value) \/ IsInstant(outcome.value)
      /\ IsAllDay(outcome.value) <=>
           /\ ResolvedDt.hour = 0 /\ ResolvedDt.minute = 0 /\ ResolvedDt.second = 0
           /\ ~Contains(raw, ":")
      /\ raw = sLeapDay \o <<"T">> \o sMidnight => IsInstant(outcome.value)
      /\ (\E i \in 1..Len(days) : raw \in NextVariants(i)) => IsInstant(outcome.value)

\* the explicit midnight literal 2024-02-29T00:00:00 came back as a timed value
C2_Witness ==
    /\ phase = "resolved"
    /\ raw = sLeapDay \o <<"T">> \o sMidnight
    /\ outcome.ok
    /\ IsInstant(outcome.value)
    /\ ResolvedDt.hour = 0 /\ ResolvedDt.minute = 0 /\ ResolvedDt.second = 0

\* C3: "today", however typed, resolves to the all-day value of now's
\* calendar date in the time zone, and "tomorrow" to that of the day after.
C3_TodayTomorrow ==
    phase = "resolved" =>
      /\ raw \in Variants(kToday) =>
           /\ outcome.ok /\ IsAllDay(outcome.value)
           /\ HasDateShape(outcome.value.date) /\ Len(outcome.value.date) = 10
           /\ LiteralDate(outcome.value.date) = LocalToday
      /\ raw \in Variants(kTomorrow) =>
           /\ outcome.ok /\ IsAllDay(outcome.value)
           /\ HasDateShape(outcome.value.date) /\ Len(outcome.value.date) = 10
           /\ LiteralDate(outcome.value.date) = LocalToday + 1

\* "tomorrow" typed in upper case between blanks, late on the UTC leap day in
\* Tokyo, where it is already 1 March: the answer is 2 March
C3_Witness ==
    /\ phase = "resolved"
    /\ raw \in Variants(kTomorrow) /\ raw # kTomorrow
    /\ timezone = "Asia/Tokyo"
    /\ clock.month = 2 /\ clock.day = 29 /\ clock.hour = 21
    /\ outcome.ok
    /\ outcome.value.date = DateChars(2024, 3, 2)

\* C6: a call ends in one of two ways, a returned value or a ParserError
\* that carries the raw string; the keywords never fail; any other input,
\* "next <not a weekday>" included, fails exactly when the literal parser
\* rejects the raw string as it was typed.
C6_TotalTwoOutcomes ==
    phase = "resolved" =>
      /\ \/ outcome.ok /\ (IsAllDay(outcome.value) \/ IsInstant(outcome.value))
         \/ ~outcome.ok /\ outcome.exc = "ParserError" /\ outcome.arg = raw
      /\ raw \in KeywordInputs => outcome.ok
      /\ raw \notin KeywordInputs => (outcome.ok <=> date_parser_parse(raw).ok)

\* "next 2024-02-29": not a weekday, and the whole string is what the literal
\* parser was given and rejected
C6_Witness ==
    /\ phase = "resolved"
    /\ raw = kNext \o sLeapDay
    /\ ~outcome.ok
    /\ outcome.exc = "ParserError"
    /\ outcome.arg = raw

\* minutes since the start of the calendar, in UTC
UtcMinutes(dt) ==
    (ToOrdinal(dt.year, dt.month, dt.day) * 24 + dt.hour) * 60 + dt.minute
    - dt.tzinfo.off

SameInstant(x, y) ==
    /\ date_parser_parse(x).ok /\ date_parser_parse(y).ok
    /\ UtcMinutes(date_parser_parse(x).dt) = UtcMinutes(date_parser_parse(y).dt)
    /\ date_parser_parse(x).dt.second = date_parser_parse(y).dt.second
    /\ date_parser_parse(x).dt.microsecond = date_parser_parse(y).dt.microsecond

\* the same variant, and the same date or the same instant and time zone
Equivalent(a, b) ==
    /\ DOMAIN a = DOMAIN b
    /\ IF IsAllDay(a)
       THEN HasDateShape(b.date) /\ LiteralDate(a.date) = LiteralDate(b.date)
       ELSE a.timeZone = b.timeZone /\ SameInstant(a.dateTime, b.dateTime)

\* C7: resolving the literal that a successful resolution returned, with the
\* same time zone, succeeds and gives an equivalent value.
C7_Idempotent ==
    phase = "again" => outcome2.ok /\ Equivalent(outcome.value, outcome2.value)

\* "today" was resolved, and its date resolved again a day later to the same
\* all-day value
C7_Witness ==
    /\ phase = "again"
    /\ raw \in Variants(kToday)
    /\ raw2 # raw
    /\ outcome2.ok
    /\ IsAllDay(outcome2.value)
    /\ outcome2.value = outcome.value

\* the literal ends with a UTC offset, (+|-)HH:MM
CarriesOffset(s) ==
    /\ Len(s) >= 6
    /\ ParseOffset(SubSeq(s, Len(s) - 5, Len(s))).ok

OffsetOf(s) == ParseOffset(SubSeq(s, Len(s) - 5, Len(s))).tzinfo.off

\* C8: a returned value is either {date} or {dateTime, timeZone}; a dateTime
\* carries a UTC offset, its timeZone is the configured zone (UTC when none
\* was supplied), and when the parsed value had no zone the offset is that
\* zone's.
C8_OneVariantAware ==
    phase = "resolved" /\ outcome.ok =>
      /\ IsAllDay(outcome.value) \/ IsInstant(outcome.value)
      /\ IsInstant(outcome.value) =>
           /\ outcome.value.timeZone = (IF timezone = None THEN "UTC" ELSE timezone)
           /\ CarriesOffset(outcome.value.dateTime)
           /\ ~ResolvedDt.tzinfo.aware =>
                OffsetOf(outcome.value.dateTime) = UtcOffset(outcome.value.timeZone)

\* a literal without a zone, no time zone supplied: UTC was attached
C8_Witness ==
    /\ phase = "resolved"
    /\ timezone = None
    /\ raw = sLeapDay \o <<"T">> \o sMorning
    /\ outcome.ok
    /\ outcome.value = [dateTime |-> raw \o <<"+", "0", "0", ":", "0", "0">>,
                        timeZone |-> "UTC"]

(***************************************************************************)
(* Properties of a command-line run, checked under Spec.                   *)
(***************************************************************************)
Sent(apis) == \E i \in 1..Len(requests) : requests[i].api \in apis

\* what parse_datetime gives for the start and end arguments of this run
StartOutcome == parse_datetime(args.start.v, timezone, clock)

EndOutcome == parse_datetime(args.end.v, timezone, clock)

\* an argument the command resolves (create-event: both; update-event: the
\* flags given with a value) is one parse_datetime fails on
ResolutionFails ==
    \/ /\ command = "create-event"
       /\ ~StartOutcome.ok \/ ~EndOutcome.ok
    \/ /\ command = "update-event"
       /\ \/ TruthySeq(args.start) /\ ~StartOutcome.ok
          \/ TruthySeq(args.end) /\ ~EndOutcome.ok

\* the command has gone past the statements that resolve its arguments
ResolutionReached ==
    \/ /\ command = "create-event"
       /\ pc \in {"create_insert", "exit"}
       /\ Sent({"calendars.get"})
    \/ /\ command = "update-event"
       /\ pc \in {"update_send", "exit"}
       /\ Len(requests) >= 2 /\ requests[2].result = "ok"

\* C4: when resolving start or end fails with ParserError in create-event or
\* update-event, the process ends with a non-zero exit status and no insert
\* or update request is sent; a request that is sent carries exactly the
\* resolved values, never a substitute.
C4_ParseErrorPropagates ==
    /\ raised = "ParserError" =>
         pc = "exit" /\ exitCode # 0 /\ ~Sent({"events.insert", "events.update"})
    /\ (ResolutionReached /\ ResolutionFails) => raised = "ParserError"
    /\ Sent({"events.insert", "events.update"}) =>
         /\ ~ResolutionFails
         /\ command = "create-event" =>
              /\ requests[Len(requests)].body.start = StartOutcome.value
              /\ requests[Len(requests)].body.end = EndOutcome.value

\* create-event whose start resolved and whose end did not: two calls of
\* parse_datetime, exit status 1, and only the calendars.get request
C4_Witness ==
    /\ pc = "exit"
    /\ command = "create-event"
    /\ StartOutcome.ok /\ ~EndOutcome.ok
    /\ resolves = 2
    /\ raised = "ParserError"
    /\ exitCode = 1
    /\ Len(requests) = 1

\* no valid token, read off the token file itself: the file is absent, is
\* not readable as JSON, holds no access_token, or holds an expired one
NoValidToken ==
    \/ ~tokenFile.exists
    \/ tokenFile.content \in {"not_text", "not_json"}
    \/ tokenFile.content = "not_object"
    \/ ~tokenFile.access_token.given
    \/ tokenFile.access_token.v = ""
    \/ /\ tokenFile.expires_at.kind = "iso"
       /\ NotBefore(clock, tokenFile.expires_at.at)

\* C5: with no valid token (file absent, not readable as JSON, no
\* access_token, or expired) every command prints the AUTH_REQUIRED line and
\* exits 0 without a backend request; every backend request follows the load
\* of a token that is not expired.
C5_AuthRequired ==
    command \in Commands =>
      /\ NoValidToken => requests = <<>>
      /\ (NoValidToken /\ pc = "exit") =>
           (stdout = <<AuthRequiredLine>> /\ exitCode = 0)
      /\ requests # <<>> =>
           /\ ~NoValidToken
           /\ \E i \in 1..Len(fileOps) : fileOps[i] = "read"
           /\ creds.loaded /\ creds.token = tokenFile.access_token.v
           /\ ~expired(creds, clock)

\* list-events with a token file holding a JSON document that is no object,
\* so no access_token: the AttributeError of token_data.get ends the process
\* with status 1 and without the AUTH_REQUIRED line
C5_Witness ==
    /\ pc = "exit"
    /\ command = "list-events"
    /\ tokenFile.exists /\ tokenFile.content = "not_object"
    /\ fileOps = <<"exists", "read">>
    /\ raised = "AttributeError"
    /\ stdout = <<>>
    /\ exitCode = 1
    /\ requests = <<>>

Reads == Cardinality({i \in 1..Len(fileOps) : fileOps[i] = "read"})

NeverWritten == \A i \in 1..Len(fileOps) : fileOps[i] \in {"exists", "read"}

\* C9 as stated: at most one date resolution and at most one backend request
\* per invocation; the token file is read at most once and never written.
C9_OneResolveOneCall ==
    /\ resolves <= 1
    /\ Len(requests) <= 1
    /\ Reads <= 1
    /\ NeverWritten

MaxRequests(cmd) ==
    CASE cmd = "create-event" -> 2
      [] cmd = "update-event" -> 3
      [] OTHER -> 1

\* C9 as amended: an invocation makes at most two date resolutions (start and
\* end, in create-event and update-event only) and at most three backend
\* requests (one in list-calendars, list-events and delete-event, two in
\* create-event, three in update-event), of which only the last may be an
\* insert, update or delete and follows every resolution; the token file is
\* read at most once and never written.
C9_BoundedRoundTrips ==
    /\ resolves <= 2
    /\ command \notin {"create-event", "update-event"} => resolves = 0
    /\ Len(requests) <= MaxRequests(command)
    /\ \A i \in 1..Len(requests) :
         requests[i].api \in {"events.insert", "events.update", "events.delete"}
           => i = Len(requests) /\ pc = "exit"
    /\ Reads <= 1
    /\ NeverWritten

\* update-event that went all the way: three requests, two resolutions, one read
C9_Witness ==
    /\ pc = "exit"
    /\ command = "update-event"
    /\ Len(requests) = 3
    /\ requests[3].api = "events.update"
    /\ resolves = 2
    /\ Reads = 1

\* the keys update-event sets: those whose flag was given with a value
SuppliedKeys ==
    (IF TruthyStr(args.title) THEN {"summary"} ELSE {})
    \cup (IF TruthyStr(args.description) THEN {"description"} ELSE {})
    \cup (IF TruthyStr(args.location) THEN {"location"} ELSE {})
    \cup (IF TruthySeq(args.start) THEN {"start"} ELSE {})
    \cup (IF TruthySeq(args.end) THEN {"end"} ELSE {})

\* what the flag of a supplied key asks the field to be
SuppliedValue(k) ==
    CASE k = "summary" -> args.title.v
      [] k = "description" -> args.description.v
      [] k = "location" -> args.location.v
      [] k = "start" -> StartOutcome.value
      [] k = "end" -> EndOutcome.value

\* C10: the body of the update request is the fetched event with only the
\* fields whose flag was given a non-empty value replaced; the request is
\* the third, after events.get and calendars.get both succeeded, and an
\* HttpError in either ends the run with exit status 1 and no update.
C10_UpdateFrame ==
    command = "update-event" =>
      /\ \A i \in 1..Len(requests) :
           requests[i].api = "events.update" =>
             /\ i = 3
             /\ requests[1].api = "events.get" /\ requests[1].result = "ok"
             /\ requests[2].api = "calendars.get" /\ requests[2].result = "ok"
             /\ DOMAIN requests[i].body = DOMAIN requests[1].response \cup SuppliedKeys
             /\ \A k \in DOMAIN requests[i].body :
                  requests[i].body[k] =
                    IF k \in SuppliedKeys THEN SuppliedValue(k)
                    ELSE requests[1].response[k]
      /\ (pc = "exit" /\ \E j \in 1..Len(requests) :
                           j <= 2 /\ requests[j].result = "HttpError")
           => (exitCode = 1 /\ ~Sent({"events.update"}))

\* the all-day event ev2 renamed and moved, --location given empty: summary
\* and start are new, status is as fetched, no location appears
C10_Witness ==
    /\ pc = "exit"
    /\ command = "update-event"
    /\ args.title = Given("Renamed")
    /\ args.location = Given("")
    /\ args.start = Given(sMarchFirst)
    /\ Len(requests) = 3
    /\ requests[1].response.id = "ev2"
    /\ requests[3].body.summary = "Renamed"
    /\ requests[3].body.start = [date |-> DateChars(2024, 3, 1)]
    /\ requests[3].body.status = "confirmed"
    /\ requests[3].body.end = requests[1].response.end
    /\ "location" \notin DOMAIN requests[3].body

====
